---- MODULE Spec2Model ----
(***************************************************************************)
(* The plan-driven orchestration of agents/router_agent.py: the step-plan  *)
(* RouterAgent.run (the planner returns {"steps": [...]}, the router       *)
(* executes the steps in order against the data agent and the support      *)
(* agent and records the A2A message log), the id coercion                 *)
(* RouterAgent._parse_customer_id, and the delegation RouterAgent.run with *)
(* CustomerDataAgent.handle, which share the message log; then the         *)
(* deterministic fallback classifier, two calls of route on one            *)
(* RouterAgent, and db_access.update_customer on the customers table.      *)
(*                                                                         *)
(* Values that come from the planner are untyped JSON.  A JSON value is a  *)
(* record [t, n, s]: t is the Python type after json.loads, n the number   *)
(* (1/0 for a bool), s the characters of a string.  Message contents and   *)
(* fragments are the literal texts of the source with the interpolated     *)
(* parameters left out.                                                    *)
(***************************************************************************)
EXTENDS Integers, Sequences, FiniteSets, TLC

VARIABLES
    plan,           \* run: the value ask_llm_json returned
    pc,             \* position of the call: start, loop, done, crashed (parse, parsed;
                    \* d_start, d_plan, d_data, h_plan, h_loop, d_support in the
                    \* delegation run)
    i,              \* run, handle: 1-based index of the step the for loop is at
    messages,       \* run: the A2A log, a sequence of [from, to, content]
    answer_chunks,  \* run: the fragments, a sequence of strings; handle: `results`,
                    \* a sequence of [tool, args, result]
    calls,          \* the data capability calls made so far, each with its tool, its
                    \* argument, how it ended, the step that made it and the index
                    \* of its request entry in messages (observed, not run's)
    result,         \* the dict run returned, [answer, log], once pc = "done"
    error,          \* the uncaught exception that ended the call, once pc = "crashed"
    raw_id,         \* the id argument as the planner gave it
    cid,            \* _parse_customer_id(raw_id)
    request_text,   \* classifier: the request text it is given
    scenario,       \* classifier: the scenario it chose
    store,          \* db_access: the customers table
    db_call,        \* db_access: the update_customer call made and how it ended
    frames,         \* route calls on one RouterAgent: the locals of each call
    heap            \* route calls on one RouterAgent: the list objects created

\* the locals of one call of run
run_vars == <<plan, pc, i, messages, answer_chunks, calls, result, error, raw_id, cid>>
\* what is not part of that call: the classifier, the store, other calls
outside == <<request_text, scenario, store, db_call, frames, heap>>
vars == <<plan, pc, i, messages, answer_chunks, calls, result, error, raw_id, cid,
          request_text, scenario, store, db_call, frames, heap>>

----------------------------------------------------------------------------
(* Bounds of the explored inputs *)

\* longest step list the planner returns
MaxSteps == 2
\* longest id string given to _parse_customer_id
MaxLen == 2
\* largest magnitude of a native integer id given to _parse_customer_id
MaxInt == 4
\* longest fragment list given to build_final_answer on its own
MaxParts == 3

----------------------------------------------------------------------------
(* JSON values *)

Val(t, n, s) == [t |-> t, n |-> n, s |-> s]
IntVal(k) == Val("int", k, <<>>)
BoolVal(b) == Val("bool", IF b THEN 1 ELSE 0, <<>>)
StrVal(s) == Val("str", 0, s)
NoneVal == Val("none", 0, <<>>)
DictVal == Val("dict", 0, <<>>)
ListVal == Val("list", 0, <<>>)
\* the outcome of an expression that raised instead of returning a value
Raised(exc) == Val("raise", 0, <<exc>>)

\* the ten characters int() reads as decimal digits, in order of value
DecimalDigits == <<"0", "1", "2", "3", "4", "5", "6", "7", "8", "9">>
DecimalChars == {DecimalDigits[k] : k \in 1..Len(DecimalDigits)}
\* characters str.isdigit() accepts and int() rejects (superscript two, U+00B2)
DigitOnlyChars == {"sup2"}
DigitValue(c) == (CHOOSE k \in 1..Len(DecimalDigits) : DecimalDigits[k] = c) - 1

\* str.isdigit(): non-empty and every character is a digit character
isdigit(s) == Len(s) > 0 /\ \A k \in 1..Len(s) : s[k] \in DecimalChars \cup DigitOnlyChars

RECURSIVE IntOfDigits(_, _)
IntOfDigits(s, acc) ==
    IF s = <<>> THEN acc ELSE IntOfDigits(Tail(s), 10 * acc + DigitValue(Head(s)))

\* int(s) for a string that passed isdigit(): ValueError on a non-decimal digit
int(s) ==
    IF \A k \in 1..Len(s) : s[k] \in DecimalChars
    THEN IntVal(IntOfDigits(s, 0))
    ELSE Raised("ValueError")

\* isinstance(v, int): bool is a subclass of int
isinstance_int(v) == v.t \in {"int", "bool"}

\* bool(v): the truth value of v, as `if v` and `v or default` read it
bool(v) ==
    CASE v.t = "str" -> v.s # <<>>
      [] v.t \in {"int", "bool"} -> v.n # 0
      [] v.t \in {"dict", "list"} -> v.n # 0   \* n of a dict or list: how many items
      [] OTHER -> FALSE

\* the characters of a string value, joined
RECURSIVE Join(_)
Join(s) == IF s = <<>> THEN "" ELSE Head(s) \o Join(Tail(s))

\* the decimal digits of a natural number
RECURSIVE Digits(_)
Digits(n) ==
    IF n < 10 THEN DecimalDigits[n + 1]
    ELSE Digits(n \div 10) \o DecimalDigits[(n % 10) + 1]

\* how an f-string renders {v}
fstr(v) ==
    CASE v.t = "none" -> "None"
      [] v.t = "str" -> Join(v.s)
      [] v.t = "int" -> IF v.n < 0 THEN "-" \o Digits(0 - v.n) ELSE Digits(v.n)
      [] v.t = "bool" -> IF v.n = 1 THEN "True" ELSE "False"
      [] v.t = "dict" -> "{}"
      [] v.t = "list" -> "[]"

\* _parse_customer_id that accepts digit strings only
_parse_customer_id_strings_only(raw) ==
    IF raw.t = "str" /\ isdigit(raw.s) THEN int(raw.s) ELSE NoneVal

_parse_customer_id(raw) ==
    IF isinstance_int(raw) THEN raw
    ELSE IF raw.t = "str" /\ isdigit(raw.s) THEN int(raw.s)
    ELSE NoneVal

\* the inputs _parse_customer_id is explored on
RECURSIVE StringsUpTo(_, _)
StringsUpTo(chars, n) ==
    IF n = 0 THEN {<<>>}
    ELSE LET shorter == StringsUpTo(chars, n - 1)
         IN shorter \cup {Append(s, c) : s \in shorter, c \in chars}

IdAlphabet == {"0", "1", "7", "a", "-", "sup2"}

RawIdInputs ==
    {IntVal(k) : k \in (-MaxInt)..MaxInt}
    \cup {BoolVal(TRUE), BoolVal(FALSE), NoneVal, DictVal, ListVal}
    \cup {StrVal(s) : s \in StringsUpTo(IdAlphabet, MaxLen)}

----------------------------------------------------------------------------
(* Planner outputs, steps, messages *)

\* step.get(key) of a key the step does not have (None)
Missing == "<missing>"

\* a key the args dict does not hold
Absent == Val("absent", 0, <<>>)

\* dict.get(key, default) on the value the dict holds under key
get(v, default) == IF v = Absent THEN default ELSE v

\* args as `step.get("args", {}) or {}` leaves them: a dict holding id (None
\* when absent), status and limit (Absent when the key is not there), the
\* empty dict (args missing, null or empty), or a truthy value that is no dict
\* (a non-empty list), which has no .get; priority as status and limit
Args(id, status, limit) ==
    [t |-> "dict", id |-> id, status |-> status, limit |-> limit, priority |-> Absent]
ArgsId(r) == Args(r, Absent, Absent)
ArgsTicket(r, priority) == [ArgsId(r) EXCEPT !.priority = priority]
NoArgs == [t |-> "empty", id |-> NoneVal, status |-> Absent, limit |-> Absent,
           priority |-> Absent]
ListArgs == [t |-> "list", id |-> NoneVal, status |-> Absent, limit |-> Absent,
             priority |-> Absent]

MappingStep(agent, action, args) ==
    [t |-> "dict", agent |-> agent, action |-> action, args |-> args]
\* an element of the steps list that is a JSON string, not an object
StringStep == [t |-> "str", agent |-> Missing, action |-> Missing, args |-> NoArgs]

IdActions == {"get_customer", "update_customer", "get_history", "create_ticket"}

PlanRawIds ==
    {IntVal(5), StrVal(<<"7">>), StrVal(<<"a", "b", "c">>), StrVal(<<"sup2">>),
     BoolVal(TRUE), NoneVal}

\* the status and limit values the planner puts in the args of a list step
Active == StrVal(<<"a", "c", "t", "i", "v", "e">>)
Disabled == StrVal(<<"d", "i", "s", "a", "b", "l", "e", "d">>)
\* the priorities the planner puts in the args of a create_ticket step: null,
\* empty, one of the three levels, a word that is none of them
Medium == StrVal(<<"m", "e", "d", "i", "u", "m">>)
High == StrVal(<<"h", "i", "g", "h">>)
Urgent == StrVal(<<"u", "r", "g", "e", "n", "t">>)
PlanPriorities == {NoneVal, StrVal(<<>>), High, Urgent}

\* status: missing, null, empty, given; limit: missing, null, an integer, a
\* string of digits, a boolean
ListStepArgs ==
    {Args(NoneVal, Absent, NoneVal),
     Args(NoneVal, NoneVal, IntVal(5)),
     Args(NoneVal, StrVal(<<>>), StrVal(<<"5">>)),
     Args(NoneVal, Disabled, Absent),
     Args(NoneVal, Disabled, IntVal(5)),
     Args(NoneVal, Active, BoolVal(TRUE))}

StepInputs ==
    {MappingStep("data", a, ArgsId(r)) : a \in IdActions, r \in PlanRawIds}
    \cup {MappingStep("data", "get_customer", ListArgs),
          MappingStep("data", "list_customers", NoArgs),
          MappingStep("data", "list_customers", ListArgs),
          MappingStep("data", "dynamic", NoArgs),
          MappingStep("data", "teleport", NoArgs),
          MappingStep("data", Missing, NoArgs),
          MappingStep("support", "final_answer", NoArgs),
          MappingStep("support", "chat", NoArgs),
          MappingStep("billing", "refund", NoArgs),
          MappingStep(Missing, "get_customer", ArgsId(IntVal(5))),
          StringStep}
    \cup {MappingStep("data", "list_customers", a) : a \in ListStepArgs}
    \cup {MappingStep("data", "create_ticket", ArgsTicket(IntVal(5), pri)) :
              pri \in PlanPriorities}

RECURSIVE SeqsUpTo(_, _)
SeqsUpTo(S, n) ==
    IF n = 0 THEN {<<>>}
    ELSE LET shorter == SeqsUpTo(S, n - 1)
         IN shorter \cup {Append(q, x) : q \in shorter, x \in S}

\* the value of plan["steps"]: a list of steps, a string, or null
StepsList(items) == [t |-> "list", items |-> items]
StepsString == [t |-> "str", items |-> <<>>]
StepsNull == [t |-> "none", items |-> <<>>]

\* a planner output: its Python type, its truth value, whether "steps" in it,
\* and plan["steps"] when it is a dict with that key
PlanVal(t, truthy, has_steps, steps) ==
    [t |-> t, truthy |-> truthy, has_steps |-> has_steps, steps |-> steps]
NoPlan == PlanVal("unset", FALSE, FALSE, StepsNull)

\* what ask_llm_json can return: json.loads of the {...} block (a dict), else
\* json.loads of the whole text (any JSON value), else {}
PlannerOutputs ==
    {PlanVal("dict", TRUE, TRUE, StepsList(q)) : q \in SeqsUpTo(StepInputs, MaxSteps)}
    \cup {PlanVal("dict", TRUE, TRUE, StepsString),     \* {"steps": "not-a-list"}
          PlanVal("dict", TRUE, TRUE, StepsNull),       \* {"steps": null}
          PlanVal("dict", TRUE, FALSE, StepsNull),      \* {"need_data": true}
          PlanVal("dict", FALSE, FALSE, StepsNull),     \* {}
          PlanVal("list", TRUE, FALSE, StepsNull),      \* [1]
          PlanVal("list", TRUE, TRUE, StepsNull),       \* ["steps"]
          PlanVal("list", FALSE, FALSE, StepsNull),     \* []
          PlanVal("str", TRUE, FALSE, StepsNull),       \* "sorry"
          PlanVal("str", TRUE, TRUE, StepsNull),        \* "no steps"
          PlanVal("int", TRUE, FALSE, StepsNull),       \* 5
          PlanVal("int", FALSE, FALSE, StepsNull),      \* 0
          PlanVal("bool", TRUE, FALSE, StepsNull),      \* true
          PlanVal("none", FALSE, FALSE, StepsNull)}     \* null

Msg(f, t, c) == [from |-> f, to |-> t, content |-> c]

NoResult == [answer |-> <<>>, log |-> <<>>]

----------------------------------------------------------------------------
(* The collaborators of run *)

\* How a call of an MCP tool can end (call_tool_sync).  "ok": it returned the
\* JSON result of the operation.  "error": it returned without raising although
\* the operation did not succeed: call_mcp_tool hands back the text of a failed
\* tool result, or None, and never looks at the result's error flag.  "raise":
\* it raised (the server process or the session could not be started).
McpOutcomes == {"ok", "error", "raise"}

\* How a call of the data agent (self.data.get_customer, update_customer,
\* get_history, create_ticket, list_customers, handle_query) can end: it
\* returns a result value or fails, as the MCP call under it does.
DataOutcomes == McpOutcomes

\* SupportAgent.summarize_customer / summarize_tickets / summarize_customers
summarize_customer(o) == IF o = "ok" THEN "Customer <name> (ID <id>) ..." ELSE "Customer not found."
summarize_tickets(o) == IF o = "ok" THEN "Ticket History: ..." ELSE "No ticket history found."
summarize_customers(o, status) ==
    IF o = "ok"
    THEN "Customer List" \o (IF bool(status) THEN " (status=" \o fstr(status) \o ")" ELSE "")
             \o ": ..."
    ELSE "No customers found."

NoInformation == "I could not find any relevant information for your request."

\* build_final_answer that joins the parts without dropping the empty ones
build_final_answer_unfiltered(parts) ==
    IF parts = <<>> THEN <<NoInformation>> ELSE parts

\* build_final_answer that answers from the newest fragment alone
build_final_answer_newest(parts) ==
    IF parts = <<>> THEN <<NoInformation>> ELSE <<parts[Len(parts)]>>

\* SupportAgent.build_final_answer(parts): the non-empty parts joined by "\n",
\* kept here as the sequence of the joined lines
build_final_answer(parts) ==
    LET cleaned == SelectSeq(parts, LAMBDA p : p # "")
    IN IF cleaned = <<>> THEN <<NoInformation>> ELSE cleaned

InvalidPlanAnswer == <<"Router did not produce a valid plan: <plan>">>

\* the condition of line 175, evaluated left to right:
\*   not plan or "steps" not in plan or not isinstance(plan["steps"], list)
PlanCheck(p) ==
    IF ~p.truthy THEN "invalid"
    ELSE IF p.t \in {"int", "bool"} THEN "TypeError"    \* "steps" not in 5
    ELSE IF ~p.has_steps THEN "invalid"
    ELSE IF p.t # "dict" THEN "TypeError"               \* "no steps"["steps"]
    ELSE IF p.steps.t # "list" THEN "invalid"
    ELSE "valid"

\* nothing but the one call of run is going on
NoRequest == [aggregate |-> FALSE, escalation |-> FALSE, update |-> FALSE,
              email |-> FALSE, help |-> FALSE, id |-> FALSE]
NoDbCall == [customer_id |-> 0, data |-> <<>>, outcome |-> "none"]
OutsideIdle ==
    /\ request_text = NoRequest
    /\ scenario = ""
    /\ store = <<>>
    /\ db_call = NoDbCall
    /\ frames = <<>>
    /\ heap = <<>>

----------------------------------------------------------------------------
(* RouterAgent.run, step-plan version *)

Init ==
    /\ pc = "start"
    /\ plan = NoPlan
    /\ i = 0
    /\ messages = <<>>
    /\ answer_chunks = <<>>
    /\ calls = <<>>
    /\ result = NoResult
    /\ error = ""
    /\ raw_id = NoneVal
    /\ cid = NoneVal
    /\ OutsideIdle

\* `return {"answer": answer, "log": log, ...}`
Return(answer, log) ==
    /\ pc' = "done"
    /\ result' = [answer |-> answer, log |-> log]
    /\ error' = error

\* an exception nobody catches leaves run
Raise(exc) ==
    /\ pc' = "crashed"
    /\ error' = exc
    /\ result' = result

\* the for loop goes on with the next step
Continue ==
    /\ pc' = "loop"
    /\ i' = i + 1
    /\ UNCHANGED <<result, error>>

\* lines 171-187: ask the planner, check the plan, start the loop
AskPlanner ==
    /\ pc = "start"
    /\ \E p \in PlannerOutputs :
        /\ plan' = p
        /\ CASE PlanCheck(p) = "TypeError" -> Raise("TypeError") /\ i' = i
             [] PlanCheck(p) = "invalid" -> Return(InvalidPlanAnswer, <<>>) /\ i' = i
             [] OTHER -> pc' = "loop" /\ i' = 1 /\ UNCHANGED <<result, error>>
    /\ UNCHANGED <<messages, answer_chunks, calls, raw_id, cid>>
    /\ UNCHANGED outside

steps == plan.steps.items
InLoop == pc = "loop" /\ i <= Len(steps)
step == steps[i]
agent == step.agent
action == step.action
args == step.args

\* lines 191-193: step.get on an element that is not a dict
StepNotMapping ==
    /\ InLoop
    /\ step.t # "dict"
    /\ Raise("AttributeError")
    /\ UNCHANGED <<plan, i, messages, answer_chunks, calls, raw_id, cid>>
    /\ UNCHANGED outside

\* the step is a dict, so lines 191-193 bind agent, action and args
Dispatch(ag, ac) == InLoop /\ step.t = "dict" /\ agent = ag /\ action = ac

\* args.get(...) when args is a truthy value that is no dict
ArgsGetRaises ==
    /\ args.t = "list"
    /\ Raise("AttributeError")
    /\ UNCHANGED <<plan, i, messages, answer_chunks, calls, raw_id, cid>>

\* the fragments appended after a call that returned (lines 256, 316, 363)
UpdatedFragment == "Updated customer <cid> with fields: <fields>"
CreatedFragment == "Created a <pri> priority ticket for customer <cid>: <issue>"
DynamicFragment == "Dynamic data workflow results: <data_result>"

\* the fragment a data branch appends after its call returned with outcome o
Fragment(tool, o) ==
    CASE tool = "get_customer" -> summarize_customer(o)
      [] tool = "update_customer" -> UpdatedFragment
      [] tool = "get_history" -> summarize_tickets(o)
      [] tool = "create_ticket" -> CreatedFragment
      [] tool = "list_customers" -> summarize_customers(o, get(args.status, NoneVal))
      [] tool = "handle_query" -> DynamicFragment

\* DataCall that logs the reply entry only when the call found something
DataCallReplyIfFound(tool, arg, request, reply) ==
    \E o \in DataOutcomes :
        /\ calls' = Append(calls, [tool |-> tool, arg |-> arg, outcome |-> o,
                                   step |-> i, at |-> Len(messages) + 1])
        /\ IF o = "raise"
           THEN /\ messages' = Append(messages, Msg("RouterAgent", "CustomerDataAgent", request))
                /\ answer_chunks' = answer_chunks
                /\ pc' = "crashed" /\ error' = "CapabilityError" /\ result' = result
                /\ i' = i
           ELSE /\ messages' = Append(messages, Msg("RouterAgent", "CustomerDataAgent", request))
                        \o (IF o = "ok" THEN <<Msg("CustomerDataAgent", "RouterAgent", reply)>>
                            ELSE <<>>)
                /\ answer_chunks' = Append(answer_chunks, Fragment(tool, o))
                /\ pc' = "loop" /\ i' = i + 1 /\ UNCHANGED <<result, error>>

\* self.data.<tool>(...) between the request entry and the reply entry: the
\* request is logged, the call is made, and only a call that returns is
\* followed by the reply entry and the fragment
DataCall(tool, arg, request, reply) ==
    \E o \in DataOutcomes :
        /\ calls' = Append(calls, [tool |-> tool, arg |-> arg, outcome |-> o,
                                   step |-> i, at |-> Len(messages) + 1])
        /\ IF o = "raise"
           THEN /\ messages' = Append(messages, Msg("RouterAgent", "CustomerDataAgent", request))
                /\ answer_chunks' = answer_chunks
                /\ Raise("CapabilityError")
                /\ i' = i
           ELSE /\ messages' = messages \o
                        <<Msg("RouterAgent", "CustomerDataAgent", request),
                          Msg("CustomerDataAgent", "RouterAgent", reply)>>
                /\ answer_chunks' = Append(answer_chunks, Fragment(tool, o))
                /\ Continue

\* line 292: pri = args.get("priority", "medium") or "medium"
pri == LET given == get(args.priority, Medium) IN IF bool(given) THEN given ELSE Medium

\* what the branch passes to self.data.<ac>: the id, and for create_ticket
\* (line 310) the priority with it
CallArgs(ac, parsed) ==
    IF ac = "create_ticket" THEN [id |-> parsed, priority |-> pri] ELSE parsed

\* one of the four branches that take a customer id (lines 200-318)
IdStep(ac, skipped, invalid, request, reply) ==
    /\ Dispatch("data", ac)
    /\ \/ ArgsGetRaises
       \/ /\ args.t # "list"
          /\ plan' = plan
          /\ raw_id' = args.id
          /\ LET parsed == _parse_customer_id(args.id)
             IN IF parsed.t = "raise"
                THEN /\ Raise(parsed.s[1])
                     /\ UNCHANGED <<i, messages, answer_chunks, calls, cid>>
                ELSE /\ cid' = parsed
                     /\ IF parsed = NoneVal
                        THEN /\ messages' = Append(messages,
                                     Msg("RouterAgent", "CustomerDataAgent", skipped))
                             /\ answer_chunks' = Append(answer_chunks, invalid)
                             /\ calls' = calls
                             /\ Continue
                        ELSE DataCall(ac, CallArgs(ac, parsed), request, reply)
    /\ UNCHANGED outside

StepGetCustomer ==
    IdStep("get_customer",
           "Attempted get_customer without a valid numeric ID - step skipped",
           "I could not look up a specific customer because the ID was not valid.",
           "get_customer(id=<cid>)", "returned customer record")

StepUpdateCustomer ==
    IdStep("update_customer",
           "Attempted update_customer without a valid numeric ID - step skipped",
           "Could not update customer because the ID was not valid.",
           "update_customer(id=<cid>, fields=<fields>)", "customer updated")

StepGetHistory ==
    IdStep("get_history",
           "Attempted get_history without a valid numeric ID - step skipped",
           "Could not fetch ticket history because the customer ID was not valid.",
           "get_customer_history(id=<cid>)", "returned ticket history")

StepCreateTicket ==
    IdStep("create_ticket",
           "Attempted create_ticket without a valid numeric ID - step skipped",
           "Could not create a ticket because the customer ID was not valid.",
           "create_ticket(id=<cid>, issue='<issue>', priority='<pri>')", "ticket created")

\* the request entry of line 328
ListRequest(status, limit) ==
    "list_customers(status=" \o fstr(status) \o ", limit=" \o fstr(limit) \o ")"

\* what lines 330-333 pass to self.data.list_customers
ListCallArgs(status, limit) ==
    [status |-> IF bool(status) THEN status ELSE Active,
     limit |-> IF isinstance_int(limit) THEN limit ELSE IntVal(20)]

\* lines 321-344
StepListCustomers ==
    /\ Dispatch("data", "list_customers")
    /\ \/ ArgsGetRaises
       \/ /\ args.t # "list"
          /\ LET status == get(args.status, NoneVal)
                 limit == get(args.limit, IntVal(20))
             IN DataCall("list_customers", ListCallArgs(status, limit),
                         ListRequest(status, limit), "returned customer list")
          /\ UNCHANGED <<plan, raw_id, cid>>
    /\ UNCHANGED outside

\* StepDynamic that logs the request and not the reply
StepDynamicNoReply ==
    /\ pc = "loop" /\ i <= Len(plan.steps.items)
    /\ plan.steps.items[i].t = "dict"
    /\ plan.steps.items[i].agent = "data" /\ plan.steps.items[i].action = "dynamic"
    /\ plan.steps.items[i].args.t # "list"
    /\ \E o \in DataOutcomes :
        /\ o # "raise"
        /\ calls' = Append(calls, [tool |-> "handle_query", arg |-> NoneVal, outcome |-> o,
                                   step |-> i, at |-> Len(messages) + 1])
        /\ messages' = Append(messages,
                Msg("RouterAgent", "CustomerDataAgent", "handle_query(query=<raw_query>)"))
        /\ answer_chunks' = Append(answer_chunks, DynamicFragment)
    /\ pc' = "loop"
    /\ i' = i + 1
    /\ UNCHANGED <<plan, result, error, raw_id, cid>>
    /\ UNCHANGED outside

\* lines 345-364
StepDynamic ==
    /\ Dispatch("data", "dynamic")
    /\ \/ ArgsGetRaises
       \/ /\ args.t # "list"
          /\ DataCall("handle_query", NoneVal, "handle_query(query=<raw_query>)",
                      "executed dynamic MCP plan via LLM")
          /\ UNCHANGED <<plan, raw_id, cid>>
    /\ UNCHANGED outside

\* Skip that logs the entry and forgets the fragment
SkipWithoutFragment(to, content, fragment) ==
    /\ messages' = Append(messages, Msg("RouterAgent", to, content))
    /\ answer_chunks' = answer_chunks
    /\ pc' = "loop"
    /\ i' = i + 1
    /\ UNCHANGED <<result, error, plan, calls, raw_id, cid>>
    /\ UNCHANGED outside

\* a step that only logs one entry and one fragment, then continue
Skip(to, content, fragment) ==
    /\ messages' = Append(messages, Msg("RouterAgent", to, content))
    /\ answer_chunks' = Append(answer_chunks, fragment)
    /\ Continue
    /\ UNCHANGED <<plan, calls, raw_id, cid>>
    /\ UNCHANGED outside

DataActions == IdActions \cup {"list_customers", "dynamic"}

\* lines 367-376
StepUnknownDataAction ==
    /\ InLoop /\ step.t = "dict" /\ agent = "data" /\ action \notin DataActions
    /\ Skip("CustomerDataAgent", "Unknown data action '<action>' - step ignored",
            "(Router skipped unknown data action '<action>'.)")

\* StepFinalAnswer that builds the answer and goes on with the next step
StepFinalAnswerContinues ==
    /\ pc = "loop" /\ i <= Len(plan.steps.items)
    /\ plan.steps.items[i].t = "dict"
    /\ plan.steps.items[i].agent = "support"
    /\ plan.steps.items[i].action = "final_answer"
    /\ messages' = messages \o
            <<Msg("RouterAgent", "SupportAgent", "build_final_answer(parts)"),
              Msg("SupportAgent", "RouterAgent", "returned final user answer")>>
    /\ pc' = "loop"
    /\ i' = i + 1
    /\ UNCHANGED <<result, error, plan, answer_chunks, calls, raw_id, cid>>
    /\ UNCHANGED outside

\* lines 381-400: the explicit final answer returns from inside the loop
StepFinalAnswer ==
    /\ Dispatch("support", "final_answer")
    /\ messages' = messages \o
            <<Msg("RouterAgent", "SupportAgent", "build_final_answer(parts)"),
              Msg("SupportAgent", "RouterAgent", "returned final user answer")>>
    /\ Return(build_final_answer(answer_chunks), messages')
    /\ UNCHANGED <<plan, i, answer_chunks, calls, raw_id, cid>>
    /\ UNCHANGED outside

\* lines 402-411
StepUnknownSupportAction ==
    /\ InLoop /\ step.t = "dict" /\ agent = "support" /\ action # "final_answer"
    /\ Skip("SupportAgent", "Unknown support action '<action>' - step ignored",
            "(Router skipped unknown support action '<action>'.)")

\* StepUnknownAgent that gives the plan up as invalid instead of skipping
StepUnknownAgentRejectsPlan ==
    /\ pc = "loop" /\ i <= Len(plan.steps.items)
    /\ plan.steps.items[i].t = "dict"
    /\ plan.steps.items[i].agent \notin {"data", "support"}
    /\ pc' = "done"
    /\ result' = [answer |-> InvalidPlanAnswer, log |-> <<>>]
    /\ UNCHANGED <<error, plan, i, messages, answer_chunks, calls, raw_id, cid>>
    /\ UNCHANGED outside

\* lines 416-424
StepUnknownAgent ==
    /\ InLoop /\ step.t = "dict" /\ agent \notin {"data", "support"}
    /\ Skip("Unknown", "Unknown agent '<agent>' - step ignored",
            "(Router skipped unknown agent '<agent>'.)")

\* FallbackCompletion that logs the request to the support agent only
FallbackCompletionNoReply ==
    /\ pc = "loop" /\ i > Len(plan.steps.items)
    /\ messages' = Append(messages,
            Msg("RouterAgent", "SupportAgent",
                "no explicit final_answer step; building answer directly"))
    /\ pc' = "done"
    /\ result' = [answer |-> build_final_answer(answer_chunks), log |-> messages']
    /\ UNCHANGED <<error, plan, i, answer_chunks, calls, raw_id, cid>>
    /\ UNCHANGED outside

\* lines 426-443: the loop ran out of steps without a final_answer step
FallbackCompletion ==
    /\ pc = "loop" /\ i > Len(steps)
    /\ messages' = messages \o
            <<Msg("RouterAgent", "SupportAgent",
                  "no explicit final_answer step; building answer directly"),
              Msg("SupportAgent", "RouterAgent", "returned final user answer (fallback)")>>
    /\ Return(build_final_answer(answer_chunks), messages')
    /\ UNCHANGED <<plan, i, answer_chunks, calls, raw_id, cid>>
    /\ UNCHANGED outside

Next ==
    \/ AskPlanner
    \/ StepNotMapping
    \/ StepGetCustomer
    \/ StepUpdateCustomer
    \/ StepGetHistory
    \/ StepCreateTicket
    \/ StepListCustomers
    \/ StepDynamic
    \/ StepUnknownDataAction
    \/ StepFinalAnswer
    \/ StepUnknownSupportAction
    \/ StepUnknownAgent
    \/ FallbackCompletion

Spec == Init /\ [][Next]_vars

\* run is straight-line synchronous code: while a statement is left to
\* execute, the interpreter executes it
FairSpec == Spec /\ WF_vars(Next)

----------------------------------------------------------------------------
(* _parse_customer_id on its own *)

InitParse ==
    /\ pc = "parse"
    /\ raw_id \in RawIdInputs
    /\ cid = NoneVal
    /\ plan = NoPlan
    /\ i = 0
    /\ messages = <<>>
    /\ answer_chunks = <<>>
    /\ calls = <<>>
    /\ result = NoResult
    /\ error = ""
    /\ OutsideIdle

ParseCustomerId ==
    /\ pc = "parse"
    /\ cid' = _parse_customer_id(raw_id)
    /\ pc' = "parsed"
    /\ UNCHANGED <<plan, i, messages, answer_chunks, calls, result, error, raw_id>>
    /\ UNCHANGED outside

NextParse == ParseCustomerId

SpecParse == InitParse /\ [][NextParse]_vars

----------------------------------------------------------------------------
(* SupportAgent.build_final_answer on its own *)

\* the fragments build_final_answer is explored on: the empty string, two
\* texts, and a text that holds a line break
PartInputs == {"", "Customer not found.", "No ticket history found.", "line 1\nline 2"}

InitAnswer ==
    /\ pc = "answer"
    /\ answer_chunks \in SeqsUpTo(PartInputs, MaxParts)
    /\ plan = NoPlan
    /\ i = 0
    /\ messages = <<>>
    /\ calls = <<>>
    /\ result = NoResult
    /\ error = ""
    /\ raw_id = NoneVal
    /\ cid = NoneVal
    /\ OutsideIdle

BuildFinalAnswer ==
    /\ pc = "answer"
    /\ result' = [result EXCEPT !.answer = build_final_answer(answer_chunks)]
    /\ pc' = "answered"
    /\ UNCHANGED <<plan, i, messages, answer_chunks, calls, error, raw_id, cid>>
    /\ UNCHANGED outside

\* build_final_answer alone, and as the step-plan run calls it
InitAnswers == InitAnswer \/ Init
NextAnswers == BuildFinalAnswer \/ Next
SpecAnswers == InitAnswers /\ [][NextAnswers]_vars

----------------------------------------------------------------------------
(* RouterAgent.run, delegation version, and CustomerDataAgent.handle *)

\* The router LLM's value after `if not isinstance(plan, dict): plan = {}`:
\* need_data as the dict holds it (Absent when the key is not there), whether
\* data_instruction and support_instruction are non-empty, and, once handle
\* has asked its own LLM, the data agent's plan
DelegationPlan(need_data, data_instruction, support_instruction, handle) ==
    [t |-> "delegation", need_data |-> need_data, data_instruction |-> data_instruction,
     support_instruction |-> support_instruction, handle |-> handle]

\* the data agent's plan after lines 118-122: steps as `plan.get("steps", [])
\* or []` leaves them (a list of items, or a truthy number, which the for loop
\* cannot iterate) and whether note is non-empty
HandlePlan(t, items, note) == [t |-> t, items |-> items, note |-> note]
NoHandlePlan == HandlePlan("unset", <<>>, FALSE)

\* an element of the data agent's steps: not a dict, a dict without a tool, a
\* dict naming a tool
ToolStep(t, tool, tool_args) == [t |-> t, tool |-> tool, args |-> tool_args]
\* {"customer_id": 5}
CustomerIdArgs == Val("dict", 1, <<"customer_id">>)
ToolStepInputs ==
    {ToolStep("str", Missing, Absent), ToolStep("dict", Missing, Absent),
     ToolStep("dict", "", CustomerIdArgs),
     ToolStep("dict", "get_customer", CustomerIdArgs),
     ToolStep("dict", "update_customer", Absent),
     ToolStep("dict", "list_customers", NoneVal)}

HandlePlanOutputs ==
    {HandlePlan("list", q, n) : q \in SeqsUpTo(ToolStepInputs, MaxSteps), n \in BOOLEAN}
    \cup {HandlePlan("int", <<>>, FALSE)}                \* {"steps": 5}

\* a non-dict output and {} both leave plan = {}
RouterPlanOutputs ==
    {DelegationPlan(nd, di, si, NoHandlePlan) :
        nd \in {Absent, BoolVal(TRUE), BoolVal(FALSE), NoneVal, StrVal(<<"n", "o">>)},
        di \in BOOLEAN, si \in BOOLEAN}

UserQuery == "<query>"

InitDelegation ==
    /\ pc = "d_start"
    /\ plan = NoPlan
    /\ i = 0
    /\ messages = <<>>
    /\ answer_chunks = <<>>
    /\ calls = <<>>
    /\ result = NoResult
    /\ error = ""
    /\ raw_id = NoneVal
    /\ cid = NoneVal
    /\ OutsideIdle

\* lines 563-565: the log starts with the user's message
RunReceive ==
    /\ pc = "d_start"
    /\ messages' = <<Msg("User", "RouterAgent", UserQuery)>>
    /\ pc' = "d_plan"
    /\ UNCHANGED <<plan, i, answer_chunks, calls, result, error, raw_id, cid>>
    /\ UNCHANGED outside

\* need_data = bool(plan.get("need_data", True))
need_data == bool(get(plan.need_data, BoolVal(TRUE)))

\* lines 568-592: ask the router LLM how to delegate
RunAskRouter ==
    /\ pc = "d_plan"
    /\ plan' \in RouterPlanOutputs
    /\ pc' = IF need_data' THEN "d_data" ELSE "d_support"
    /\ UNCHANGED <<i, messages, answer_chunks, calls, result, error, raw_id, cid>>
    /\ UNCHANGED outside

\* lines 593-603: log the instruction and call the data agent
RunDelegate ==
    /\ pc = "d_data"
    /\ messages' = Append(messages,
            Msg("RouterAgent", "CustomerDataAgent",
                IF plan.data_instruction THEN "<data_instruction>"
                ELSE "Handle this user request using MCP tools."))
    /\ pc' = "h_plan"
    /\ UNCHANGED <<plan, i, answer_chunks, calls, result, error, raw_id, cid>>
    /\ UNCHANGED outside

\* data_agent.py lines 107-127: the data agent asks its LLM for tool calls
HandleAskPlan ==
    /\ pc = "h_plan"
    /\ \E hp \in HandlePlanOutputs :
        /\ plan' = [plan EXCEPT !.handle = hp]
        /\ IF hp.t = "list"
           THEN pc' = "h_loop" /\ i' = 1 /\ UNCHANGED <<result, error>>
           ELSE Raise("TypeError") /\ i' = i             \* for step in 5
    /\ UNCHANGED <<messages, answer_chunks, calls, raw_id, cid>>
    /\ UNCHANGED outside

tool_steps == plan.handle.items
InHandleLoop == pc = "h_loop" /\ i <= Len(tool_steps)

\* lines 129-135: the step is a dict and `tool` is truthy
HasTool(s) == s.t = "dict" /\ s.tool \notin {Missing, ""}

\* data_agent.py lines 128-135: an element that is no dict or names no tool
HandleSkip ==
    /\ InHandleLoop
    /\ ~HasTool(tool_steps[i])
    /\ i' = i + 1
    /\ UNCHANGED <<plan, pc, messages, answer_chunks, calls, result, error, raw_id, cid>>
    /\ UNCHANGED outside

\* line 133: args = step.get("args", {}) or {}
ToolArgs(s) == LET given == get(s.args, DictVal) IN IF bool(given) THEN given ELSE DictVal

\* data_agent.py lines 137-144: one MCP call for the step; when it returns,
\* tool, args and result go to the end of `results` (kept in answer_chunks)
HandleCallTool ==
    /\ InHandleLoop
    /\ HasTool(tool_steps[i])
    /\ \E o \in McpOutcomes :
        /\ calls' = Append(calls, [tool |-> tool_steps[i].tool, arg |-> ToolArgs(tool_steps[i]),
                                   outcome |-> o, step |-> i, at |-> Len(messages)])
        /\ IF o = "raise"
           THEN Raise("CapabilityError") /\ i' = i /\ answer_chunks' = answer_chunks
           ELSE /\ i' = i + 1
                /\ answer_chunks' = Append(answer_chunks,
                        [tool |-> tool_steps[i].tool, args |-> ToolArgs(tool_steps[i]),
                         result |-> o])
                /\ UNCHANGED <<pc, result, error>>
    /\ UNCHANGED <<plan, messages, raw_id, cid>>
    /\ UNCHANGED outside

\* HandleReturn that hands back a fresh log holding only the note
HandleReturnFreshLog ==
    /\ pc = "h_loop" /\ i > Len(plan.handle.items)
    /\ messages' = IF plan.handle.note
                   THEN <<Msg("CustomerDataAgent", "RouterAgent", "<note>")>>
                   ELSE messages
    /\ pc' = "d_support"
    /\ UNCHANGED <<plan, i, answer_chunks, calls, result, error, raw_id, cid>>
    /\ UNCHANGED outside

\* data_agent.py lines 146-158 and router line 606: the note, if any, is
\* appended to the list the router passed in, and that list comes back
HandleReturn ==
    /\ pc = "h_loop" /\ i > Len(tool_steps)
    /\ messages' = IF plan.handle.note
                   THEN Append(messages, Msg("CustomerDataAgent", "RouterAgent", "<note>"))
                   ELSE messages
    /\ pc' = "d_support"
    /\ UNCHANGED <<plan, i, answer_chunks, calls, result, error, raw_id, cid>>
    /\ UNCHANGED outside

\* what ask_llm returns to SupportAgent.build_final_answer: the stripped text
\* of the completion, "" when it has no content
LlmAnswers == {<<"<llm answer>">>, <<"">>}

\* lines 609-631: ask the support agent for the answer and return
RunSupport ==
    /\ pc = "d_support"
    /\ messages' = messages \o
            <<Msg("RouterAgent", "SupportAgent",
                  IF plan.support_instruction THEN "<support_instruction>"
                  ELSE "Generate the final answer for the user."),
              Msg("SupportAgent", "RouterAgent", "Returned final user answer.")>>
    /\ \E a \in LlmAnswers : Return(a, messages')
    /\ UNCHANGED <<plan, i, answer_chunks, calls, raw_id, cid>>
    /\ UNCHANGED outside

NextDelegation ==
    \/ RunReceive
    \/ RunAskRouter
    \/ RunDelegate
    \/ HandleAskPlan
    \/ HandleSkip
    \/ HandleCallTool
    \/ HandleReturn
    \/ RunSupport

\* both versions of RouterAgent.run
InitRuns == Init \/ InitDelegation
NextRuns == Next \/ NextDelegation
SpecRuns == InitRuns /\ [][NextRuns]_vars

----------------------------------------------------------------------------
(* The deterministic fallback classifier (the planner used without an LLM) *)

\* no call of run is going on: its locals are as at entry
RunIdle ==
    /\ plan = NoPlan
    /\ i = 0
    /\ messages = <<>>
    /\ answer_chunks = <<>>
    /\ calls = <<>>
    /\ result = NoResult
    /\ error = ""
    /\ raw_id = NoneVal
    /\ cid = NoneVal

\* a request text, by what the predicates read in it: an aggregate keyword, an
\* escalation keyword, an update keyword, an email address, an account-help
\* keyword, a bare integer token
Requests ==
    [aggregate : BOOLEAN, escalation : BOOLEAN, update : BOOLEAN,
     email : BOOLEAN, help : BOOLEAN, id : BOOLEAN]

SimpleLookup == "simple lookup"
TaskAllocation == "task allocation/upgrade"
Escalation == "negotiation/escalation"
MultiStepAggregate == "multi-step aggregate"
UpdateAndHistory == "multi-intent update+history"
Scenarios ==
    {SimpleLookup, TaskAllocation, Escalation, MultiStepAggregate, UpdateAndHistory}

\* the predicates; account help asks for an identifier too: without one the
\* request falls through to the default, which answers with a clarifying
\* question
Matches(predicate, r) ==
    CASE predicate = "aggregate" -> r.aggregate
      [] predicate = "escalation" -> r.escalation
      [] predicate = "update+email" -> r.update /\ r.email
      [] predicate = "account help" -> r.help /\ r.id

\* the ordered list of (predicate, scenario) pairs
ScenarioOrder ==
    << <<"aggregate", MultiStepAggregate>>,
       <<"escalation", Escalation>>,
       <<"update+email", UpdateAndHistory>>,
       <<"account help", TaskAllocation>> >>

\* the scenario of the first pair of the list whose predicate matches
RECURSIVE FirstMatch(_, _)
FirstMatch(pairs, r) ==
    IF pairs = <<>> THEN SimpleLookup
    ELSE IF Matches(Head(pairs)[1], r) THEN Head(pairs)[2]
    ELSE FirstMatch(Tail(pairs), r)

Reverse(q) == [k \in 1..Len(q) |-> q[Len(q) + 1 - k]]

\* classify that lets a later pair of the list override an earlier one
classify_last_match(r) == FirstMatch(Reverse(ScenarioOrder), r)

classify(r) == FirstMatch(ScenarioOrder, r)

InitClassifier ==
    /\ pc = "classify"
    /\ request_text \in Requests
    /\ scenario = ""
    /\ store = <<>>
    /\ db_call = NoDbCall
    /\ frames = <<>>
    /\ heap = <<>>
    /\ RunIdle

Classify ==
    /\ pc = "classify"
    /\ scenario' = classify(request_text)
    /\ pc' = "classified"
    /\ UNCHANGED <<plan, i, messages, answer_chunks, calls, result, error, raw_id, cid>>
    /\ UNCHANGED <<request_text, store, db_call, frames, heap>>

NextClassifier == Classify

SpecClassifier == InitClassifier /\ [][NextClassifier]_vars

----------------------------------------------------------------------------
(* Two calls of route on one RouterAgent *)

\* The calls run one after the other or interleaved.  Each has its own frame
\* (the locals of run); a list a call creates is an object on the heap, and a
\* local holds its address (0: not created yet).  Every entry and fragment
\* carries the call that produced it.
Calls == {1, 2}
Versions == {"step-plan", "delegation"}

Frame(at, log, chunks, left, note, returned) ==
    [at |-> at, log |-> log, chunks |-> chunks, left |-> left, note |-> note,
     returned |-> returned]
NoReturn == [answer |-> 0, log |-> 0]

Entry(c, f, t) == [call |-> c, from |-> f, to |-> t]
Piece(c) == [call |-> c]

\* the list object the local `messages` of call c refers to
messages_of_first_call(c) == IF frames[1].log # 0 THEN frames[1].log ELSE frames[c].log
messages_of(c) == frames[c].log
\* the list object `answer_chunks` (step-plan run) or `results` (handle)
chunks_of(c) == frames[c].chunks

\* a list display or list() creates a new object
new == Len(heap) + 1

InitRoutes ==
    /\ pc \in Versions
    /\ frames = [c \in Calls |-> Frame("idle", 0, 0, 0, FALSE, NoReturn)]
    /\ heap = <<>>
    /\ request_text = NoRequest
    /\ scenario = ""
    /\ store = <<>>
    /\ db_call = NoDbCall
    /\ RunIdle

\* what every action on the calls leaves alone
RoutesFrame ==
    UNCHANGED <<plan, pc, i, messages, answer_chunks, calls, result, error, raw_id, cid,
                request_text, scenario, store, db_call>>

\* router.route(query) is called
Route(c) ==
    /\ frames[c].at = "idle"
    /\ frames' = [frames EXCEPT ![c].at = IF pc = "step-plan" THEN "start" ELSE "d_start"]
    /\ heap' = heap
    /\ RoutesFrame

\* step-plan run, lines 172-187: an invalid plan returns a new empty log; a
\* valid one creates messages and answer_chunks
CallAskPlanner(c) ==
    /\ frames[c].at = "start"
    /\ \/ /\ heap' = Append(heap, <<>>)
          /\ frames' = [frames EXCEPT ![c].at = "done",
                                      ![c].returned = [answer |-> 0, log |-> new]]
       \/ \E n \in 0..MaxSteps :
          /\ heap' = heap \o << <<>>, <<>> >>
          /\ frames' = [frames EXCEPT ![c].at = "loop", ![c].log = new,
                                      ![c].chunks = new + 1, ![c].left = n]
    /\ RoutesFrame

\* lines 189-424: a step that is skipped logs one entry, a step that calls the
\* data agent logs the request and the reply; either appends one fragment
CallStep(c) ==
    /\ frames[c].at = "loop" /\ frames[c].left > 0
    /\ \E called \in BOOLEAN :
        heap' = [heap EXCEPT
                    ![messages_of(c)] = @ \o (IF called
                                      THEN <<Entry(c, "RouterAgent", "CustomerDataAgent"),
                                             Entry(c, "CustomerDataAgent", "RouterAgent")>>
                                      ELSE <<Entry(c, "RouterAgent", "CustomerDataAgent")>>),
                    ![chunks_of(c)] = Append(@, Piece(c))]
    /\ frames' = [frames EXCEPT ![c].left = @ - 1]
    /\ RoutesFrame

\* lines 381-400 and 426-443: the answer is built from answer_chunks and the
\* log is returned
CallFinalAnswer(c) ==
    /\ frames[c].at = "loop" /\ frames[c].left = 0
    /\ heap' = [heap EXCEPT ![messages_of(c)] = @ \o <<Entry(c, "RouterAgent", "SupportAgent"),
                                                Entry(c, "SupportAgent", "RouterAgent")>>]
    /\ frames' = [frames EXCEPT ![c].at = "done",
                                ![c].returned = [answer |-> chunks_of(c), log |-> messages_of(c)]]
    /\ RoutesFrame

\* delegation run, lines 563-581: messages = [user entry], then the router LLM
CallReceive(c) ==
    /\ frames[c].at = "d_start"
    /\ heap' = Append(heap, <<Entry(c, "User", "RouterAgent")>>)
    /\ \E nd \in BOOLEAN :
        frames' = [frames EXCEPT ![c].at = IF nd THEN "d_data" ELSE "d_support",
                                 ![c].log = new]
    /\ RoutesFrame

\* lines 592-603 and data_agent.py 113-125: the instruction is logged, handle
\* gets the list itself, asks its LLM and creates results
CallDelegate(c) ==
    /\ frames[c].at = "d_data"
    /\ heap' = Append([heap EXCEPT ![messages_of(c)] =
                            Append(@, Entry(c, "RouterAgent", "CustomerDataAgent"))],
                      <<>>)
    /\ \E n \in 0..MaxSteps, note \in BOOLEAN :
        frames' = [frames EXCEPT ![c].at = "h_loop", ![c].chunks = new,
                                 ![c].left = n, ![c].note = note]
    /\ RoutesFrame

\* data_agent.py 137-144: one tool call, one entry of results
CallTool(c) ==
    /\ frames[c].at = "h_loop" /\ frames[c].left > 0
    /\ heap' = [heap EXCEPT ![chunks_of(c)] = Append(@, Piece(c))]
    /\ frames' = [frames EXCEPT ![c].left = @ - 1]
    /\ RoutesFrame

\* data_agent.py 146-158: the note is appended to the list handle was given
CallHandleReturn(c) ==
    /\ frames[c].at = "h_loop" /\ frames[c].left = 0
    /\ heap' = IF frames[c].note
               THEN [heap EXCEPT ![messages_of(c)] =
                        Append(@, Entry(c, "CustomerDataAgent", "RouterAgent"))]
               ELSE heap
    /\ frames' = [frames EXCEPT ![c].at = "d_support"]
    /\ RoutesFrame

\* lines 609-631
CallSupport(c) ==
    /\ frames[c].at = "d_support"
    /\ heap' = [heap EXCEPT ![messages_of(c)] = @ \o <<Entry(c, "RouterAgent", "SupportAgent"),
                                                Entry(c, "SupportAgent", "RouterAgent")>>]
    /\ frames' = [frames EXCEPT ![c].at = "done",
                                ![c].returned = [answer |-> chunks_of(c), log |-> messages_of(c)]]
    /\ RoutesFrame

NextRoutes ==
    \E c \in Calls :
        \/ Route(c)
        \/ CallAskPlanner(c)
        \/ CallStep(c)
        \/ CallFinalAnswer(c)
        \/ CallReceive(c)
        \/ CallDelegate(c)
        \/ CallTool(c)
        \/ CallHandleReturn(c)
        \/ CallSupport(c)

SpecRoutes == InitRoutes /\ [][NextRoutes]_vars

----------------------------------------------------------------------------
(* db_access.update_customer on the customers table *)

\* The table is a function from the id of a row to the row, a row a function
\* from column names to values.  A data mapping is a function from its keys to
\* their values.
Row(id, status) ==
    [id |-> id, name |-> "old name", email |-> "old@mail", phone |-> "old phone",
     status |-> status, created_at |-> "t0", updated_at |-> "t0"]
StoredCustomers == (1 :> Row(1, "active")) @@ (2 :> Row(2, "disabled"))

\* the ids update_customer is called with: two stored, one not
CustomerIds == {1, 2, 3}

\* mappings with allowed keys, with keys that are columns but not allowed (id,
\* created_at), with keys that are no column (tier), and with none
DataInputs ==
    { <<>>,
      [tier |-> "gold"],
      [id |-> 9],
      [name |-> "new name"],
      [id |-> 9, name |-> "new name"],
      [status |-> "disabled", tier |-> "gold"],
      [email |-> "new@mail", phone |-> "new phone", created_at |-> "t1"] }

allowed == {"name", "email", "phone", "status"}

\* update_customer that sets every key of data that is a column
update_customer_any_column(db, customer_id, data) ==
    LET fields == DOMAIN data \cap {"id", "name", "email", "phone", "status", "created_at", "updated_at"}
        updated == [r \in DOMAIN db |->
                        IF db[r].id = customer_id
                        THEN [col \in DOMAIN db[r] |->
                                IF col \in fields THEN data[col] ELSE db[r][col]]
                        ELSE db[r]]
    IN IF fields = {}
       THEN [store |-> db, outcome |-> "ValueError: No valid update fields."]
       ELSE IF \E r \in DOMAIN updated : updated[r].id = customer_id
       THEN [store |-> updated, outcome |-> "row"]
       ELSE [store |-> updated, outcome |-> "ValueError: Customer not found."]

\* lines 41-75: the store after the call and how the call ended.  `fields`
\* are the keys of data that are allowed; without any the call raises before
\* it opens the database; UPDATE ... SET fields WHERE id = customer_id and the
\* commit come before the SELECT that finds out whether the row exists
update_customer(db, customer_id, data) ==
    LET fields == {k \in DOMAIN data : k \in allowed}
        updated == [r \in DOMAIN db |->
                        IF db[r].id = customer_id
                        THEN [col \in DOMAIN db[r] |->
                                IF col \in fields THEN data[col] ELSE db[r][col]]
                        ELSE db[r]]
    IN IF fields = {}
       THEN [store |-> db, outcome |-> "ValueError: No valid update fields."]
       ELSE IF \E r \in DOMAIN updated : updated[r].id = customer_id
       THEN [store |-> updated, outcome |-> "row"]
       ELSE [store |-> updated, outcome |-> "ValueError: Customer not found."]

InitStore ==
    /\ pc = "db"
    /\ store = StoredCustomers
    /\ db_call = NoDbCall
    /\ request_text = NoRequest
    /\ scenario = ""
    /\ frames = <<>>
    /\ heap = <<>>
    /\ RunIdle

\* one call of the MCP tool update_customer (server.py 36-40)
UpdateCustomer ==
    /\ pc = "db"
    /\ \E customer_id \in CustomerIds, data \in DataInputs :
        LET done == update_customer(store, customer_id, data)
        IN /\ store' = done.store
           /\ db_call' = [customer_id |-> customer_id, data |-> data,
                          outcome |-> done.outcome]
    /\ UNCHANGED <<plan, pc, i, messages, answer_chunks, calls, result, error, raw_id, cid>>
    /\ UNCHANGED <<request_text, scenario, frames, heap>>

NextStore == UpdateCustomer

SpecStore == InitStore /\ [][NextStore]_vars

----------------------------------------------------------------------------
(* Properties of the step-plan run *)

Accepted == pc # "start" /\ PlanCheck(plan) = "valid"
Returned == pc = "done"
Last(q) == q[Len(q)]
IsFinalAnswerStep(s) == s.t = "dict" /\ s.agent = "support" /\ s.action = "final_answer"
HasFinalAnswerStep == \E k \in 1..Len(steps) : IsFinalAnswerStep(steps[k])
\* an answer is the sequence of its lines: it is non-empty when a line is
AnswerNonEmpty(a) == \E k \in 1..Len(a) : a[k] # ""
IsPrefix(q, r) == Len(q) <= Len(r) /\ SubSeq(r, 1, Len(q)) = q

\* this step only appended one entry to the log and one fragment, made no
\* capability call, and the loop went on to the next step
SkippedThisStep ==
    /\ pc' = "loop"
    /\ i' = i + 1
    /\ Len(messages') = Len(messages) + 1 /\ IsPrefix(messages, messages')
    /\ Len(answer_chunks') = Len(answer_chunks) + 1 /\ IsPrefix(answer_chunks, answer_chunks')
    /\ calls' = calls

\* C1: whatever the planner returns and however the data capability behaves,
\* run returns a result with an answer and a trace: the call never ends in an
\* uncaught error.
C1_NeverUncaughtError ==
    /\ pc # "crashed"
    /\ Returned => (Len(result.answer) >= 1 /\ result.log = messages)

\* C2: on every return path (planning failure, final_answer step, fallback
\* completion) the returned answer is non-empty and the returned trace has at
\* least one entry.
C2_AnswerAndTraceNonEmpty ==
    Returned => (AnswerNonEmpty(result.answer) /\ Len(result.log) >= 1)

\* the planner's value has no "steps" entry, or one that is not a list
StepsAbsentOrNotList ==
    pc # "start" /\ plan.t = "dict" /\ (~plan.has_steps \/ plan.steps.t # "list")

\* C3: when "steps" is absent or not a list, run returns the planning-failure
\* answer with a trace of exactly one entry, the receipt of the request from
\* the user, and makes no capability call.
C3_InvalidPlanReturnsReceiptOnly ==
    (Returned /\ StepsAbsentOrNotList) =>
        /\ result.answer = InvalidPlanAnswer
        /\ Len(result.log) = 1
        /\ result.log[1].from = "User" /\ result.log[1].to = "RouterAgent"
        /\ calls = <<>>

MissingKey(s) == s.t = "dict" /\ (s.agent = Missing \/ s.action = Missing)
Malformed(s) == s.t # "dict" \/ MissingKey(s)

C5_LastRecipientIsSupport ==
    (Returned /\ Accepted /\ ~HasFinalAnswerStep) => Last(result.log).to = "SupportAgent"

FallbackRequest ==
    Msg("RouterAgent", "SupportAgent", "no explicit final_answer step; building answer directly")
FallbackReply ==
    Msg("SupportAgent", "RouterAgent", "returned final user answer (fallback)")

\* C5 as amended: for an accepted plan without a final_answer step, a run that
\* returns has gone through every step and then made one response step: the
\* returned trace ends with the request to the support agent followed by its
\* reply, so the final entry has the support agent as sender and the router as
\* recipient, no other entry comes from the support agent, and the answer is
\* built from the fragments.
C5_FallbackEndsWithSupportPair ==
    (Returned /\ Accepted /\ ~HasFinalAnswerStep) =>
        LET n == Len(result.log)
        IN /\ i = Len(steps) + 1
           /\ n >= 2
           /\ result.log[n - 1] = FallbackRequest
           /\ result.log[n] = FallbackReply
           /\ Cardinality({k \in 1..n : result.log[k].from = "SupportAgent"}) = 1
           /\ Cardinality({k \in 1..n : result.log[k] = FallbackRequest}) = 1
           /\ IF \E k \in 1..Len(answer_chunks) : answer_chunks[k] # ""
              THEN result.answer = answer_chunks
              ELSE result.answer = <<NoInformation>>

\* two data steps, no final_answer: the fallback completed the run
C5_Witness ==
    /\ Returned /\ Accepted /\ ~HasFinalAnswerStep
    /\ Len(steps) = 2 /\ Len(calls) = 2
    /\ Len(result.log) = 6

----------------------------------------------------------------------------
(* The id coercion and the steps that use it *)

OnlyDecimalDigits(s) == Len(s) > 0 /\ \A k \in 1..Len(s) : s[k] \in DecimalChars

\* the digits s, read with the last one as the units, denote n
RECURSIVE Denotes(_, _)
Denotes(s, n) ==
    IF s = <<>> THEN n = 0
    ELSE /\ DigitValue(s[Len(s)]) = n % 10
         /\ Denotes(SubSeq(s, 1, Len(s) - 1), n \div 10)

\* the coercion rule: a native integer, or a string made only of digits
CoercesToInteger(v) == v.t = "int" \/ (v.t = "str" /\ OnlyDecimalDigits(v.s))

\* C6: _parse_customer_id returns n for the native integer n, the integer a
\* digit-only string denotes, and None for every other value (empty, signed and
\* non-digit strings, booleans, mappings, lists, a missing id).
C6_ParseCustomerIdContract ==
    pc = "parsed" =>
        IF raw_id.t = "int" THEN cid = raw_id
        ELSE IF raw_id.t = "str" /\ OnlyDecimalDigits(raw_id.s)
             THEN cid.t = "int" /\ cid.n >= 0 /\ Denotes(raw_id.s, cid.n)
        ELSE cid = NoneVal

AtIdStep == InLoop /\ step.t = "dict" /\ agent = "data" /\ action \in IdActions

\* C7: a step of one of the four id-taking actions whose id is neither a native
\* integer nor a digit-only string appends one fragment and one trace entry,
\* makes no data capability call, and the loop goes on with the next step.
C7_InvalidIdStepSkipped ==
    [][(AtIdStep /\ args.t # "list" /\ ~CoercesToInteger(args.id)) => SkippedThisStep]_vars

\* the pairs the if/elif chain of the loop gives a branch of their own
DispatchTable == {<<"data", a>> : a \in DataActions} \cup {<<"support", "final_answer">>}
\* the six pairs of the claimed dispatch table
ClaimedTable ==
    {<<"data", a>> : a \in IdActions \cup {"list_customers"}} \cup {<<"support", "final_answer">>}

AtMappingStep == InLoop /\ step.t = "dict"

\* C8 as claimed: every step whose pair is not one of the six (fetch, update,
\* history, create-ticket, list, respond) appends one fragment and one trace
\* entry, makes no capability call, and is followed by the remaining steps.
C8_OutsideSixPairsSkipped ==
    [][(AtMappingStep /\ <<agent, action>> \notin ClaimedTable) => SkippedThisStep]_vars

\* C8 as amended: the dispatch table of the loop has seven pairs, the six and
\* Data dynamic, which calls the data agent; every mapping step whose pair is
\* none of the seven appends one fragment and one trace entry addressed
\* by the router, makes no capability call, does not raise, and is followed
\* by the next step.
C8_UnknownPairSkipped ==
    [][(AtMappingStep /\ <<agent, action>> \notin DispatchTable) =>
            /\ SkippedThisStep
            /\ Last(messages').from = "RouterAgent"
            /\ Last(answer_chunks') # ""
            /\ UNCHANGED <<result, error>>]_vars

\* Data teleport was skipped and the fetch after it was executed
C8_Witness ==
    /\ pc = "loop" /\ i = 3 /\ Len(steps) = 2
    /\ steps[1].agent = "data" /\ steps[1].action = "teleport"
    /\ Len(answer_chunks) = 2 /\ Len(messages) = 3
    /\ Len(calls) = 1 /\ calls[1].step = 2

\* C9: a data capability call that fails is caught: the step leaves one
\* fragment and the loop goes on; the failure never ends the call.
C9_CapabilityFailureAbsorbed ==
    \A k \in 1..Len(calls) :
        calls[k].outcome = "raise" =>
            /\ pc # "crashed"
            /\ Len(answer_chunks) >= calls[k].step

SuccessEntries == {"customer updated", "ticket created"}
SuccessFragments == {UpdatedFragment, CreatedFragment}
CallSucceeded(k) == calls[k].outcome = "ok"

\* C10: the log says "customer updated" or "ticket created", and a fragment
\* says the customer was updated or the ticket created, only for a step whose
\* data capability call succeeded.
C10_SuccessOnlyIfSucceeded ==
    /\ \A m \in 1..Len(messages) :
          messages[m].content \in SuccessEntries =>
              \E k \in 1..Len(calls) : calls[k].at = m - 1 /\ CallSucceeded(k)
    /\ \A f \in 1..Len(answer_chunks) :
          answer_chunks[f] \in SuccessFragments =>
              \E k \in 1..Len(calls) : calls[k].step = f /\ CallSucceeded(k)

----------------------------------------------------------------------------
(* At most one capability call per step, termination, order *)

IsDataStep(s) == s.t = "dict" /\ s.agent = "data"
DataStepsOfPlan == {k \in 1..Len(steps) : IsDataStep(steps[k])}
\* the steps the loop has gone through and left behind
ExecutedSteps == {k \in 1..Len(steps) : k < i}
CallsOfStep(k) == {c \in 1..Len(calls) : calls[c].step = k}

\* the argument contract of the dispatch table: the id of the four id-taking
\* actions coerces to an integer; list and dynamic take no required argument
ArgumentsValid(s) ==
    /\ IsDataStep(s)
    /\ s.action \in DataActions
    /\ s.action \in IdActions => (s.args.t # "list" /\ CoercesToInteger(s.args.id))

\* C11: every Data step the loop has executed made exactly one data capability
\* call if its arguments are valid and none otherwise, no step made a second
\* call, and the calls of a run never outnumber the Data steps of its plan.
C11_OneCallPerValidDataStep ==
    /\ \A k \in ExecutedSteps \cap DataStepsOfPlan :
          Cardinality(CallsOfStep(k)) = IF ArgumentsValid(steps[k]) THEN 1 ELSE 0
    /\ \A k \in 1..Len(steps) : Cardinality(CallsOfStep(k)) <= 1
    /\ Len(calls) <= Cardinality(DataStepsOfPlan)

\* the position of the first support/final_answer step of the plan
FirstFinalAnswer == CHOOSE k \in 1..Len(steps) :
    IsFinalAnswerStep(steps[k]) /\ \A j \in 1..(k - 1) : ~IsFinalAnswerStep(steps[j])
FinalAnswerRequest == Msg("RouterAgent", "SupportAgent", "build_final_answer(parts)")
FinalAnswerReply == Msg("SupportAgent", "RouterAgent", "returned final user answer")

Rank ==
    CASE pc = "start" -> 0
      [] pc = "loop" -> i
      [] pc = "done" -> MaxSteps + 3
      [] OTHER -> 0 - 1
PlanningFailed(p) == PlanCheck(p) # "valid"

\* C13: every call moves only forward through Received, Planning,
\* Executing(1..N), Completing and Done, never re-entering a state; it goes from
\* Planning straight to Done exactly when planning failed; and it eventually
\* reaches Done.
C13_ForwardToDone ==
    /\ [][Rank' > Rank]_vars
    /\ [][pc = "start" => (pc' = "done" <=> PlanningFailed(plan'))]_vars
    /\ <>(pc = "done")

----------------------------------------------------------------------------
(* The trace *)

Receipt == Msg("User", "RouterAgent", UserQuery)

\* C14: the trace starts with the receipt of the request, from "User" to the
\* router with the request as content: the entry is in the trace by the time
\* the planner has been consulted, and it is the first entry of every
\* returned trace.
C14_FirstEntryIsReceipt ==
    /\ plan # NoPlan => (messages # <<>> /\ messages[1] = Receipt)
    /\ Returned => (result.log # <<>> /\ result.log[1] = Receipt)

\* C15: the trace is append-only: every step of either version of run, and of
\* CustomerDataAgent.handle, which works on the same list, leaves the earlier
\* entries where and as they were and only adds entries at the end; the trace
\* that is returned is that list.
C15_TraceAppendOnly ==
    /\ [][IsPrefix(messages, messages')]_vars
    /\ [](Returned => result.log = messages)

\* the delegation run returned after handle made a call and appended its note
\* between the router's two requests
C15_Witness ==
    /\ Returned /\ plan.t = "delegation"
    /\ Len(calls) = 1
    /\ Len(result.log) = 5
    /\ result.log[1] = Receipt
    /\ result.log[2].to = "CustomerDataAgent"
    /\ result.log[3] = Msg("CustomerDataAgent", "RouterAgent", "<note>")
    /\ result.log[4].to = "SupportAgent"

\* the Data steps with valid arguments among the steps the run went through
ValidDataSteps == {k \in ExecutedSteps : ArgumentsValid(steps[k])}
\* the name of the data agent method a Data action calls
ToolOf(a) == IF a = "dynamic" THEN "handle_query" ELSE a

\* C16: steps run one after another in plan order: when the run returns, its
\* data capability calls are, one for one and in the same order, the valid
\* Data steps it went through, and the request entries of the calls stand in
\* the trace in the order of their steps, each after every entry of the
\* steps before it.
C16_CallsFollowPlanOrder ==
    (Returned /\ Accepted) =>
        /\ Len(calls) = Cardinality(ValidDataSteps)
        /\ \A c \in 1..Len(calls) :
              /\ calls[c].step \in ValidDataSteps
              /\ Cardinality({k \in ValidDataSteps : k <= calls[c].step}) = c
              /\ calls[c].tool = ToolOf(steps[calls[c].step].action)
              /\ calls[c].at >= calls[c].step
        /\ \A c, d \in 1..Len(calls) : c < d => calls[c].at < calls[d].at

----------------------------------------------------------------------------
(* The fragments *)

InvalidIdFragments ==
    [get_customer |-> "I could not look up a specific customer because the ID was not valid.",
     update_customer |-> "Could not update customer because the ID was not valid.",
     get_history |-> "Could not fetch ticket history because the customer ID was not valid.",
     create_ticket |-> "Could not create a ticket because the customer ID was not valid."]

\* the fragments a step of the plan can leave, by its agent and action
FragmentsOfStep(s) ==
    CASE s.agent = "data" /\ s.action = "get_customer" ->
            {InvalidIdFragments.get_customer, "Customer <name> (ID <id>) ...", "Customer not found."}
      [] s.agent = "data" /\ s.action = "update_customer" ->
            {InvalidIdFragments.update_customer, UpdatedFragment}
      [] s.agent = "data" /\ s.action = "get_history" ->
            {InvalidIdFragments.get_history, "Ticket History: ...", "No ticket history found."}
      [] s.agent = "data" /\ s.action = "create_ticket" ->
            {InvalidIdFragments.create_ticket, CreatedFragment}
      [] s.agent = "data" /\ s.action = "list_customers" ->
            {"Customer List: ...", "Customer List (status=disabled): ...",
             "Customer List (status=active): ...", "No customers found."}
      [] s.agent = "data" /\ s.action = "dynamic" -> {DynamicFragment}
      [] s.agent = "data" -> {"(Router skipped unknown data action '<action>'.)"}
      [] s.agent = "support" -> {"(Router skipped unknown support action '<action>'.)"}
      [] OTHER -> {"(Router skipped unknown agent '<agent>'.)"}

\* C17: the fragment list only grows, by one fragment for each step the loop
\* leaves behind; when the run returns, at the final_answer step or at the
\* fallback completion, the list holds exactly one fragment for each step
\* executed before, the k-th fragment being the one of the k-th step, and the
\* answer is built from all of them in that order (the canned message when
\* there is none).
C17_AnswerFromAllFragmentsInOrder ==
    /\ [][IsPrefix(answer_chunks, answer_chunks')]_vars
    /\ [][(pc = "loop" /\ pc' = "loop") => Len(answer_chunks') = Len(answer_chunks) + 1]_vars
    /\ [](Returned /\ Accepted =>
              /\ Len(answer_chunks) = i - 1
              /\ i = IF HasFinalAnswerStep THEN FirstFinalAnswer ELSE Len(steps) + 1
              /\ \A k \in 1..Len(answer_chunks) : answer_chunks[k] \in FragmentsOfStep(steps[k])
              /\ LET kept == SelectSeq(answer_chunks, LAMBDA p : p # "")
                 IN result.answer = IF kept = <<>> THEN <<NoInformation>> ELSE kept)

\* an unknown data action, then a fetch that found the customer, then the
\* fallback completion: the answer is the two fragments in that order
C17_Witness ==
    /\ Returned /\ Accepted /\ Len(steps) = 2 /\ i = 3
    /\ steps[1].agent = "data" /\ steps[1].action = "teleport"
    /\ steps[2].agent = "data" /\ steps[2].action = "get_customer"
    /\ Len(calls) = 1 /\ calls[1].outcome = "ok"
    /\ result.answer = <<"(Router skipped unknown data action '<action>'.)",
                         "Customer <name> (ID <id>) ...">>

----------------------------------------------------------------------------
(* Replay *)

\* the shape of a trace: the sender and recipient of each entry, in order
Shape(log) == [k \in 1..Len(log) |-> <<log[k].from, log[k].to>>]

ToData == <<"RouterAgent", "CustomerDataAgent">>
FromData == <<"CustomerDataAgent", "RouterAgent">>
ToSupport == <<"RouterAgent", "SupportAgent">>
FromSupport == <<"SupportAgent", "RouterAgent">>

\* the entries one step of a plan leaves, whatever its capability call returns
ShapeOfStep(s) ==
    CASE s.agent = "data" /\ s.action \in IdActions ->
            IF _parse_customer_id(s.args.id) = NoneVal THEN <<ToData>> ELSE <<ToData, FromData>>
      [] s.agent = "data" /\ s.action \in {"list_customers", "dynamic"} -> <<ToData, FromData>>
      [] s.agent = "data" -> <<ToData>>
      [] s.agent = "support" -> <<ToSupport>>
      [] OTHER -> <<<<"RouterAgent", "Unknown">>>>

\* the shape of the trace of a plan, read off the plan alone
RECURSIVE ShapeOfPlan(_)
ShapeOfPlan(items) ==
    IF items = <<>> \/ IsFinalAnswerStep(Head(items)) THEN <<ToSupport, FromSupport>>
    ELSE ShapeOfStep(Head(items)) \o ShapeOfPlan(Tail(items))

\* C18: the shape of the trace a run returns is a function of the plan alone:
\* every run of the same plan that returns, whatever its capability calls
\* returned, has the same number of entries with the same senders and
\* recipients at the same positions, so a replay of the plan repeats the shape.
C18_TraceShapeFromPlanAlone ==
    Returned =>
        IF Accepted THEN Shape(result.log) = ShapeOfPlan(steps) ELSE result.log = <<>>

\* a fetch whose call found nothing and an update whose call succeeded: the
\* results differ from those of a run that found the customer, the shape does
\* not
C18_Witness ==
    /\ Returned /\ Accepted /\ Len(steps) = 2
    /\ Len(calls) = 2
    /\ calls[1].tool = "get_customer" /\ calls[1].outcome = "error"
    /\ calls[2].tool = "update_customer" /\ calls[2].outcome = "ok"
    /\ Shape(result.log) = <<ToData, FromData, ToData, FromData, ToSupport, FromSupport>>

----------------------------------------------------------------------------
(* The single-fetch scenario *)

\* the plan of the scenario: one Data fetch of customer 5, no response step
SingleFetchPlan == <<MappingStep("data", "get_customer", ArgsId(IntVal(5)))>>
AtSingleFetchReturn == Returned /\ Accepted /\ steps = SingleFetchPlan

DataRelated(log) ==
    {k \in 1..Len(log) : "CustomerDataAgent" \in {log[k].from, log[k].to}}
ResponseRelated(log) ==
    {k \in 1..Len(log) : "SupportAgent" \in {log[k].from, log[k].to}}

\* C19 as claimed: the trace of the single-fetch plan holds exactly 2
\* Data-related entries and exactly 1 response entry.
C19_TwoDataEntriesOneResponse ==
    AtSingleFetchReturn =>
        /\ Cardinality(DataRelated(result.log)) = 2
        /\ Cardinality(ResponseRelated(result.log)) = 1

\* C19 as amended: the trace of the single-fetch plan has exactly 4 entries:
\* the request to the data agent and its reply, then the request to the
\* support agent and its reply; one get_customer call was made, with id 5.
C19_TwoDataEntriesTwoResponse ==
    AtSingleFetchReturn =>
        /\ Len(result.log) = 4
        /\ DataRelated(result.log) = {1, 2}
        /\ ResponseRelated(result.log) = {3, 4}
        /\ result.log[1] = Msg("RouterAgent", "CustomerDataAgent", "get_customer(id=<cid>)")
        /\ result.log[2] = Msg("CustomerDataAgent", "RouterAgent", "returned customer record")
        /\ result.log[3] = FallbackRequest
        /\ result.log[4] = FallbackReply
        /\ Len(calls) = 1 /\ calls[1].tool = "get_customer" /\ calls[1].arg = IntVal(5)

\* the single-fetch plan ran, found the customer and returned
C19_Witness ==
    /\ AtSingleFetchReturn
    /\ Len(calls) = 1 /\ calls[1].outcome = "ok"
    /\ result.answer = <<"Customer <name> (ID <id>) ...">>

----------------------------------------------------------------------------
(* The list step *)

IsListStep(s) ==
    s.t = "dict" /\ s.agent = "data" /\ s.action = "list_customers" /\ s.args.t # "list"

\* the defaults of the argument contract: status "active" unless a status is
\* given, limit 20 unless an integer limit is given
ContractStatus(a) == IF a.status.t = "str" /\ a.status.s # <<>> THEN a.status ELSE Active
ContractLimit(a) == IF a.limit.t = "int" THEN a.limit ELSE IntVal(20)

\* C20: a Data list step the loop has executed made exactly one
\* list_customers call, with the given status or "active" and the given integer
\* limit or 20, and the request entry of the trace and the summary fragment
\* name the status and the limit that were passed to the call.
C20_ListDefaultsPassedAndRecorded ==
    \A k \in ExecutedSteps :
        IsListStep(steps[k]) =>
            /\ Cardinality(CallsOfStep(k)) = 1
            /\ \A c \in CallsOfStep(k) :
                  /\ calls[c].tool = "list_customers"
                  /\ calls[c].arg.status = ContractStatus(steps[k].args)
                  /\ calls[c].arg.limit = ContractLimit(steps[k].args)
                  /\ messages[calls[c].at].content =
                        ListRequest(calls[c].arg.status, calls[c].arg.limit)
                  /\ answer_chunks[k] = summarize_customers(calls[c].outcome, calls[c].arg.status)

----------------------------------------------------------------------------
(* The create_ticket step *)

Low == StrVal(<<"l", "o", "w">>)
Priorities == {Low, Medium, High}
TicketCalls == {c \in 1..Len(calls) : calls[c].tool = "create_ticket"}

\* C21: every create_ticket call passes a priority that is low, medium or high,
\* and passes medium when the step gives no priority: no other priority the
\* planner supplied reaches the data capability.
C21_TicketPriorityInSet ==
    \A c \in TicketCalls :
        /\ calls[c].arg.priority \in Priorities
        /\ steps[calls[c].step].args.priority \in {Absent, NoneVal, StrVal(<<>>)} =>
              calls[c].arg.priority = Medium

----------------------------------------------------------------------------
(* The response capability *)

\* the non-empty strings of a list, in their order
RECURSIVE NonEmptyOf(_)
NonEmptyOf(q) ==
    IF q = <<>> THEN <<>>
    ELSE IF Head(q) = "" THEN NonEmptyOf(Tail(q))
    ELSE <<Head(q)>> \o NonEmptyOf(Tail(q))

\* C22: build_final_answer returns the canned no-information message for a
\* fragment list that is empty or holds only empty fragments, and otherwise the
\* non-empty fragments in their original order; an accepted plan with an empty
\* step list returns the canned message and makes no data capability call.
C22_ResponseAlwaysAnswers ==
    /\ pc = "answered" =>
          result.answer = IF NonEmptyOf(answer_chunks) = <<>> THEN <<NoInformation>>
                          ELSE NonEmptyOf(answer_chunks)
    /\ (Returned /\ Accepted /\ steps = <<>>) =>
          (result.answer = <<NoInformation>> /\ calls = <<>> /\ answer_chunks = <<>>)

\* an empty fragment between two texts was dropped and the order kept
C22_Witness ==
    /\ pc = "answered"
    /\ answer_chunks = <<"No ticket history found.", "", "Customer not found.">>
    /\ result.answer = <<"No ticket history found.", "Customer not found.">>

----------------------------------------------------------------------------
(* Properties of the delegation run *)

\* the normalised router plan is {}: the LLM's value was no mapping, or a
\* mapping without need_data, data_instruction and support_instruction
EmptyDelegationPlan == plan = DelegationPlan(Absent, FALSE, FALSE, plan.handle)
ToAgents(log) ==
    {k \in 1..Len(log) : log[k].to \in {"CustomerDataAgent", "SupportAgent"}}

\* C23: in the delegation run a planner response that is no delegation
\* decision (not a mapping, an empty mapping, missing keys) is a planning
\* failure: the data agent and the support agent are never invoked, no tool is
\* called, and the call returns the failure answer
C23_NonDecisionIsPlanningFailure ==
    (plan.t = "delegation" /\ EmptyDelegationPlan) =>
        /\ ToAgents(messages) = {}
        /\ calls = <<>>
        /\ pc \notin {"d_data", "h_plan", "h_loop", "d_support"}
        /\ Returned => result.answer = InvalidPlanAnswer

----------------------------------------------------------------------------
(* The fallback classifier *)

\* C24: the fallback classifier is total and priority-ordered: every request
\* gets exactly one of the five scenarios, the one of the first predicate that
\* matches in the order aggregate keyword, escalation keyword, update+email,
\* account help, and simple lookup when none matches; a request matching
\* several predicates gets the earliest one.
C24_ClassifierTotalAndOrdered ==
    pc = "classified" =>
        LET r == request_text
            agg == Matches("aggregate", r)
            esc == Matches("escalation", r)
            upd == Matches("update+email", r)
            hlp == Matches("account help", r)
        IN /\ scenario \in Scenarios
           /\ agg => scenario = MultiStepAggregate
           /\ (~agg /\ esc) => scenario = Escalation
           /\ (~agg /\ ~esc /\ upd) => scenario = UpdateAndHistory
           /\ (~agg /\ ~esc /\ ~upd /\ hlp) => scenario = TaskAllocation
           /\ (~agg /\ ~esc /\ ~upd /\ ~hlp) => scenario = SimpleLookup

\* a request that matches every predicate was classified as the aggregate one
C24_Witness ==
    /\ pc = "classified"
    /\ request_text = [aggregate |-> TRUE, escalation |-> TRUE, update |-> TRUE,
                       email |-> TRUE, help |-> TRUE, id |-> TRUE]
    /\ scenario = MultiStepAggregate

----------------------------------------------------------------------------
(* Calls of route on one RouterAgent *)

OnlyOf(c, a) == \A k \in 1..Len(heap[a]) : heap[a][k].call = c
ListsOf(c) ==
    {frames[c].log, frames[c].chunks, frames[c].returned.log, frames[c].returned.answer}
        \ {0}

\* C25: no state is shared between two calls of route on one RouterAgent, run
\* one after the other or interleaved: the trace and the fragment list of a
\* call, while it runs and as it returns them, hold only what that call
\* produced, and the two calls never use the same list.
C25_CallsShareNothing ==
    /\ \A c \in Calls : \A a \in ListsOf(c) : OnlyOf(c, a)
    /\ ListsOf(1) \cap ListsOf(2) = {}

\* both calls returned a trace and fragments, and the second call created its
\* trace between the first call's trace and the first call's fragment list
C25_Witness ==
    /\ \A c \in Calls :
          /\ frames[c].at = "done"
          /\ frames[c].returned.answer # 0
          /\ Len(heap[frames[c].returned.log]) > 2
          /\ Len(heap[frames[c].returned.answer]) > 0
    /\ frames[1].returned.log < frames[2].returned.log
    /\ frames[2].returned.log < frames[1].returned.answer

----------------------------------------------------------------------------
(* The delegation run: who is invoked, and the end of the trace *)

DelegationEnded == plan.t = "delegation" /\ pc \in {"done", "crashed"}
InvocationsOf(callee) ==
    {k \in 1..Len(messages) : messages[k].from = "RouterAgent" /\ messages[k].to = callee}

\* C26: every call of the delegation run invokes the support agent exactly
\* once and the data agent at most once, the data agent before the support
\* agent; the returned trace ends with RouterAgent to SupportAgent, SupportAgent
\* to RouterAgent, and has exactly 3 entries when need_data is false.
C26_SupportOnceDataAtMostOnce ==
    DelegationEnded =>
        /\ Cardinality(InvocationsOf("SupportAgent")) = 1
        /\ Cardinality(InvocationsOf("CustomerDataAgent")) <= 1
        /\ \A d \in InvocationsOf("CustomerDataAgent"), a \in InvocationsOf("SupportAgent") :
              d < a
        /\ Returned =>
              /\ result.log = messages
              /\ Len(messages) >= 2
              /\ Shape(SubSeq(messages, Len(messages) - 1, Len(messages)))
                    = <<ToSupport, FromSupport>>
              /\ ~need_data => Len(result.log) = 3

----------------------------------------------------------------------------
(* CustomerDataAgent.handle *)

\* handle is over: it returned to run, or an exception left it
HandleEnded ==
    /\ plan.t = "delegation" /\ plan.handle.t = "list"
    /\ \/ pc \in {"d_support", "done"}
       \/ pc = "crashed"
NamesTool(s) == s.t = "dict" /\ s.tool # Missing /\ s.tool # ""

\* C27: handle makes exactly one tool call for each plan step that is a mapping
\* with a non-empty tool name, in plan order, and none for any other step; the
\* results list it returns has one entry per call, in call order, each with the
\* tool, the args and the result of that call.
C27_OneToolCallPerToolStep ==
    HandleEnded =>
        /\ \A k \in 1..Len(tool_steps) :
              Cardinality(CallsOfStep(k)) = IF NamesTool(tool_steps[k]) THEN 1 ELSE 0
        /\ \A c, d \in 1..Len(calls) : c < d => calls[c].step < calls[d].step
        /\ \A c \in 1..Len(calls) : calls[c].tool = tool_steps[calls[c].step].tool
        /\ pc # "crashed" =>
              /\ Len(answer_chunks) = Len(calls)
              /\ \A c \in 1..Len(calls) :
                    answer_chunks[c] = [tool |-> calls[c].tool, args |-> calls[c].arg,
                                        result |-> calls[c].outcome]

NoteEntry == Msg("CustomerDataAgent", "RouterAgent", "<note>")
\* the trace as run handed it to handle: the user's entry and the instruction
AtHandleEntry == <<messages[1], messages[2]>>
HandleAppended == SubSeq(messages, 3, Len(messages))

\* C28: handle appends exactly one trace entry (CustomerDataAgent to
\* RouterAgent, content the note) when the planner's note is non-empty and none
\* when it is empty or missing, however many tool calls it made, and never
\* changes the entries the trace already had.
C28_HandleAppendsNoteOnly ==
    /\ []((HandleEnded /\ pc # "done") =>
            HandleAppended = IF plan.handle.note THEN <<NoteEntry>> ELSE <<>>)
    /\ [][(pc = "h_plan" \/ pc = "h_loop") => IsPrefix(messages, messages')]_vars

----------------------------------------------------------------------------
(* The step loop of the step-plan run *)

AtLoopPoint == pc = "loop" /\ Accepted
CallingSteps == {k \in ExecutedSteps : CallsOfStep(k) # {}}
SkippedSteps == ExecutedSteps \ CallingSteps

\* C29: at every point of the step loop the number of fragments is the number
\* of steps processed so far, and the trace has grown by exactly 2 entries (the
\* request to CustomerDataAgent, then its reply) for each Data step that made a
\* capability call and by exactly 1 entry for each skipped step.
C29_LoopInvariant ==
    /\ [](AtLoopPoint =>
            /\ Len(answer_chunks) = i - 1
            /\ Len(messages) = 2 * Cardinality(CallingSteps) + Cardinality(SkippedSteps)
            /\ \A c \in 1..Len(calls) :
                  /\ Shape(messages)[calls[c].at] = ToData
                  /\ Shape(messages)[calls[c].at + 1] = FromData)
    /\ [][(pc = "loop" /\ pc' = "loop") =>
            /\ i' = i + 1
            /\ Len(answer_chunks') = Len(answer_chunks) + 1
            /\ IsPrefix(messages, messages')
            /\ Len(messages') = Len(messages) + (IF calls' # calls THEN 2 ELSE 1)]_vars

\* the loop stands after a step that called the data agent and a skipped step
C29_Witness ==
    /\ AtLoopPoint
    /\ i = 3
    /\ CallingSteps = {1} /\ SkippedSteps = {2}
    /\ Len(messages) = 3 /\ Len(answer_chunks) = 2

----------------------------------------------------------------------------
(* The customers table under update_customer *)

UpdateColumns == {"name", "email", "phone", "status"}

\* C30: update_customer changes only the columns name, email, phone, status of
\* the one row whose id is customer_id, to the values data gives them, and
\* ignores every other key of data; with no allowed key in data it raises and
\* the store is unchanged, and with no row of that id it raises "Customer not
\* found" with every row unchanged.
C30_UpdateTouchesAllowedColumnsOfOneRow ==
    [][LET c == db_call'
           given == DOMAIN c.data \cap UpdateColumns
       IN /\ DOMAIN store' = DOMAIN store
          /\ \A r \in DOMAIN store :
                /\ store[r].id # c.customer_id => store'[r] = store[r]
                /\ \A col \in DOMAIN store[r] \ given : store'[r][col] = store[r][col]
                /\ (store[r].id = c.customer_id /\ given # {}) =>
                      /\ \A col \in given : store'[r][col] = c.data[col]
                      /\ c.outcome = "row"
          /\ given = {} =>
                (c.outcome = "ValueError: No valid update fields." /\ store' = store)
          /\ (given # {} /\ \A r \in DOMAIN store : store[r].id # c.customer_id) =>
                (c.outcome = "ValueError: Customer not found." /\ store' = store)]_vars

\* a call for row 1 with the keys id and name changed the name of row 1 and
\* nothing else, after an earlier call had changed row 2
C30_Witness ==
    /\ db_call = [customer_id |-> 1, data |-> [id |-> 9, name |-> "new name"],
                  outcome |-> "row"]
    /\ store[1] = [Row(1, "active") EXCEPT !.name = "new name"]
    /\ store[2] = [Row(2, "disabled") EXCEPT !.email = "new@mail", !.phone = "new phone"]

====
